---- MODULE Spec2Model ----
(***************************************************************************)
(* Layout core of cygni_arcana.py: galactic_to_cartesian,                  *)
(* categorize_x_plot, rank_y_plot, plot_star and the loop of               *)
(* create_cygni_arcana_plot.                                               *)
(*                                                                         *)
(* Number representation.  Lengths (offsets from the GC-Sol-GAC line) are  *)
(* integers counting 1/10000 light-year.  Plot coordinates are exact        *)
(* fractions [num, den]; a fraction with den = 0 stands for the            *)
(* ZeroDivisionError Python raises on x / 0.  Cosines and sines are taken  *)
(* from a table in hundredths for the angles that occur in the model.     *)
(***************************************************************************)
EXTENDS Integers, Sequences, FiniteSets

VARIABLES STARS, fn, perpendicular_distance, x_pos, star_data, y_pos, plotted

vars == <<STARS, fn, perpendicular_distance, x_pos, star_data, y_pos, plotted>>

\* ---------------------------------------------------------------- bounds
MaxStars == 3

MaxOffset == 75

\* ---------------------------------------------------------------- numbers
LightYear == 100 * 100

Frac(n, d) == [num |-> n, den |-> d]

abs(x) == IF x < 0 THEN -x ELSE x

RECURSIVE GCD(_, _)
GCD(a, b) == IF b = 0 THEN a ELSE GCD(b, a % b)

\* a / b in lowest terms; b = 0 gives den = 0
Div(a, b) == IF b = 0 THEN Frac(a, 0)
             ELSE LET g == GCD(abs(a), abs(b))
                  IN  Frac(a \div g, b \div g)

Mul(f, g) == Frac(f.num * g.num, f.den * g.den)

Add(f, g) == Frac(f.num * g.den + g.num * f.den, f.den * g.den)

Sub(f, g) == Frac(f.num * g.den - g.num * f.den, f.den * g.den)

Raised(f) == f.den = 0

FEq(f, g) == /\ ~Raised(f)
             /\ ~Raised(g)
             /\ f.num * g.den = g.num * f.den

FLt(f, g) == /\ f.den > 0
             /\ g.den > 0
             /\ f.num * g.den < g.num * f.den

FLe(f, g) == FLt(f, g) \/ FEq(f, g)

\* ---------------------------------------------------------------- catalog
SagittariusA == [name |-> "Sagittarius A*", distance |-> 26000, longitude |-> 0, latitude |-> 0]

Sol == [name |-> "Sol", distance |-> 0, longitude |-> 180, latitude |-> 0]

AnchorNames == {"Sagittarius A*", "Sol"}

RegularNames == {"Eltanin", "Thuban", "Polaris"}

\* <<distance, longitude, latitude>> of the regular stars the catalogs draw from
Coordinates == {<<4, 0, 60>>, <<2, 60, 0>>, <<1, 60, 60>>, <<0, 180, 0>>,
                <<1, 180, 0>>, <<30, 240, 0>>, <<100, 120, 0>>}

Star(n, c) == [name |-> n, distance |-> c[1], longitude |-> c[2], latitude |-> c[3]]

RegularRecords == {Star(n, c) : n \in RegularNames, c \in Coordinates}

Records == {SagittariusA, Sol} \cup RegularRecords

StarData == Records \cup {Star(n, c) : n \in AnchorNames, c \in Coordinates}

UniqueNames(s) == \A a, b \in 1..Len(s) : s[a].name = s[b].name => a = b

Catalogs == {s \in UNION {[1..n -> Records] : n \in 0..MaxStars} : UniqueNames(s)}

\* ---------------------------------------------------------------- trigonometry
cos(deg) == CASE deg = 0 -> 100
              [] deg = 60 -> 50
              [] deg = 120 -> -50
              [] deg = 180 -> -100
              [] deg = 240 -> -50
              [] deg = 300 -> 50

sin(deg) == CASE deg = 0 -> 0
              [] deg = 60 -> 87
              [] deg = 120 -> 87
              [] deg = 180 -> 0
              [] deg = 240 -> -87
              [] deg = 300 -> -87

galactic_to_cartesian(distance, longitude_deg, latitude_deg) ==
    LET planar_distance == distance * cos(latitude_deg)
    IN  [x_plot |-> planar_distance * sin(longitude_deg),
         y_plot |-> planar_distance * cos(longitude_deg)]

\* ---------------------------------------------------------------- x axis
\* variant: the moderate bucket mistyped as 1.5
categorize_x_plot_off_grid(d) ==
    LET abs_distance == abs(d)
        sign == IF d >= 0 THEN -1 ELSE 1
    IN  IF abs_distance < 1 * LightYear THEN Frac(0, 1)
        ELSE IF abs_distance < 12 * LightYear THEN Frac(sign * 1, 2)
        ELSE IF abs_distance < 70 * LightYear THEN Frac(sign * 3, 2)
        ELSE Frac(sign * 2, 1)

\* variant: the centre bucket closed at 1 ly (<= instead of <)
categorize_x_plot_centre_closed(d) ==
    LET abs_distance == abs(d)
        sign == IF d >= 0 THEN -1 ELSE 1
    IN  IF abs_distance <= 1 * LightYear THEN Frac(0, 1)
        ELSE IF abs_distance < 12 * LightYear THEN Frac(sign * 1, 2)
        ELSE IF abs_distance < 70 * LightYear THEN Frac(sign * 1, 1)
        ELSE Frac(sign * 2, 1)

\* variant: the outer thresholds closed (<= 12, <= 70)
categorize_x_plot_outer_closed(d) ==
    LET abs_distance == abs(d)
        sign == IF d >= 0 THEN -1 ELSE 1
    IN  IF abs_distance < 1 * LightYear THEN Frac(0, 1)
        ELSE IF abs_distance <= 12 * LightYear THEN Frac(sign * 1, 2)
        ELSE IF abs_distance <= 70 * LightYear THEN Frac(sign * 1, 1)
        ELSE Frac(sign * 2, 1)

\* variant: the sign is not flipped
categorize_x_plot_unflipped(d) ==
    LET abs_distance == abs(d)
        sign == IF d >= 0 THEN 1 ELSE -1
    IN  IF abs_distance < 1 * LightYear THEN Frac(0, 1)
        ELSE IF abs_distance < 12 * LightYear THEN Frac(sign * 1, 2)
        ELSE IF abs_distance < 70 * LightYear THEN Frac(sign * 1, 1)
        ELSE Frac(sign * 2, 1)

categorize_x_plot(d) ==
    LET abs_distance == abs(d)
        sign == IF d >= 0 THEN -1 ELSE 1
    IN  IF abs_distance < 1 * LightYear THEN Frac(0, 1)
        ELSE IF abs_distance < 12 * LightYear THEN Frac(sign * 1, 2)
        ELSE IF abs_distance < 70 * LightYear THEN Frac(sign * 1, 1)
        ELSE Frac(sign * 2, 1)

\* ---------------------------------------------------------------- y axis
y_plot_of(star) == galactic_to_cartesian(star.distance, star.longitude, star.latitude).y_plot

regular_stars(all_stars) ==
    LET kept == SelectSeq(all_stars, LAMBDA star : star.name \notin {"Sagittarius A*", "Sol"})
    IN  [k \in 1..Len(kept) |-> [name |-> kept[k].name, y_plot |-> y_plot_of(kept[k])]]

\* variant: the list is left in catalog order
sort_reverse_skipped(s) == s

\* list.sort(key=y_plot, reverse=True): stable, descending
RECURSIVE sort_reverse(_)
sort_reverse(s) ==
    IF s = <<>> THEN <<>>
    ELSE LET front == sort_reverse(SubSeq(s, 1, Len(s) - 1))
             x == s[Len(s)]
             n == Cardinality({k \in 1..Len(front) : front[k].y_plot >= x.y_plot})
         IN  SubSeq(front, 1, n) \o <<x>> \o SubSeq(front, n + 1, Len(front))

positive_stars(regular) == SelectSeq(regular, LAMBDA s : s.y_plot > 0)

\* variant: the farther group takes y_plot < 0 only
negative_stars_strict(regular) == SelectSeq(regular, LAMBDA s : s.y_plot < 0)

negative_stars(regular) == SelectSeq(regular, LAMBDA s : s.y_plot <= 0)

names_of(stars) == [k \in 1..Len(stars) |-> stars[k].name]

contains(names, star_name) == \E k \in 1..Len(names) : names[k] = star_name

\* list.index: zero-based position of the first occurrence
index(names, star_name) ==
    (CHOOSE k \in 1..Len(names) :
        /\ names[k] = star_name
        /\ \A j \in 1..(k - 1) : names[j] # star_name) - 1

\* variant: the rank is not reversed
positive_position_unreversed(rank, total_positive) ==
    IF total_positive > 1
    THEN Add(Frac(1, 10), Mul(Div(rank, total_positive - 1), Frac(47, 100)))
    ELSE Frac(35, 100)

positive_position(rank, total_positive) ==
    LET reversed_rank == total_positive - 1 - rank
    IN  IF total_positive > 1
        THEN Add(Frac(1, 10), Mul(Div(reversed_rank, total_positive - 1), Frac(47, 100)))
        ELSE Frac(35, 100)

\* variant: the division is evaluated whatever the size of the group
negative_position_unguarded(rank, total_negative) ==
    Sub(Frac(-1, 10), Mul(Div(rank, total_negative - 1), Frac(47, 100)))

negative_position(rank, total_negative) ==
    IF total_negative > 1
    THEN Sub(Frac(-1, 10), Mul(Div(rank, total_negative - 1), Frac(47, 100)))
    ELSE Frac(-35, 100)

\* variant: the galactic centre's name is misspelt in the test
rank_y_plot_misspelt(star, all_stars) ==
    LET star_name == star.name
    IN  IF star_name = "Sagittarius A" THEN Frac(7, 10)
        ELSE IF star_name = "Sol" THEN Frac(0, 1)
        ELSE LET regular == sort_reverse(regular_stars(all_stars))
                 current_y_plot == y_plot_of(star)
             IN  IF current_y_plot > 0
                 THEN LET names == names_of(positive_stars(regular))
                      IN  IF contains(names, star_name)
                          THEN positive_position(index(names, star_name), Len(names))
                          ELSE Frac(0, 1)
                 ELSE LET names == names_of(negative_stars(regular))
                      IN  IF contains(names, star_name)
                          THEN negative_position(index(names, star_name), Len(names))
                          ELSE Frac(0, 1)

\* variant: a linear distance scale in the closer group
rank_y_plot_linear(star, all_stars) ==
    LET star_name == star.name
    IN  IF star_name = "Sagittarius A*" THEN Frac(7, 10)
        ELSE IF star_name = "Sol" THEN Frac(0, 1)
        ELSE LET regular == sort_reverse(regular_stars(all_stars))
                 current_y_plot == y_plot_of(star)
             IN  IF current_y_plot > 0
                 THEN LET names == names_of(positive_stars(regular))
                      IN  IF contains(names, star_name)
                          THEN IF Len(names) > 1
                               THEN Add(Frac(1, 10),
                                        Mul(Div(current_y_plot, regular[1].y_plot),
                                            Frac(47, 100)))
                               ELSE Frac(35, 100)
                          ELSE Frac(0, 1)
                 ELSE LET names == names_of(negative_stars(regular))
                      IN  IF contains(names, star_name)
                          THEN negative_position(index(names, star_name), Len(names))
                          ELSE Frac(0, 1)

rank_y_plot(star, all_stars) ==
    LET star_name == star.name
    IN  IF star_name = "Sagittarius A*" THEN Frac(7, 10)
        ELSE IF star_name = "Sol" THEN Frac(0, 1)
        ELSE LET regular == sort_reverse(regular_stars(all_stars))
                 current_y_plot == y_plot_of(star)
             IN  IF current_y_plot > 0
                 THEN LET names == names_of(positive_stars(regular))
                      IN  IF contains(names, star_name)
                          THEN positive_position(index(names, star_name), Len(names))
                          ELSE Frac(0, 1)
                 ELSE LET names == names_of(negative_stars(regular))
                      IN  IF contains(names, star_name)
                          THEN negative_position(index(names, star_name), Len(names))
                          ELSE Frac(0, 1)

\* ---------------------------------------------------------------- state machine
NoStar == [name |-> "", distance |-> 0, longitude |-> 0, latitude |-> 0]

Offsets == {k * (LightYear \div 2) : k \in (-2 * MaxOffset)..(2 * MaxOffset)}
           \cup {s * m : s \in {-1, 1},
                         m \in {1, 9990, LightYear - 1, LightYear + 1,
                                12 * LightYear - 1, 12 * LightYear + 1,
                                70 * LightYear - 1, 70 * LightYear + 1,
                                86 * LightYear}}

Init ==
    /\ STARS \in Catalogs
    /\ fn = "import"
    /\ perpendicular_distance = 0
    /\ x_pos = Frac(0, 1)
    /\ star_data = NoStar
    /\ y_pos = Frac(0, 1)
    /\ plotted = 0

\* a call categorize_x_plot(d) on the freshly imported module
CallCategorizeXPlot ==
    /\ fn = "import"
    /\ \E d \in Offsets :
          /\ perpendicular_distance' = d
          /\ x_pos' = categorize_x_plot(d)
    /\ fn' = "categorize_x_plot"
    /\ star_data' = NoStar
    /\ y_pos' = Frac(0, 1)
    /\ UNCHANGED <<STARS, plotted>>

\* a call rank_y_plot(s, STARS) on the freshly imported module
CallRankYPlot ==
    /\ fn = "import"
    /\ \E s \in StarData :
          /\ star_data' = s
          /\ y_pos' = rank_y_plot(s, STARS)
    /\ fn' = "rank_y_plot"
    /\ perpendicular_distance' = 0
    /\ x_pos' = Frac(0, 1)
    /\ UNCHANGED <<STARS, plotted>>

\* one iteration of "for star in STARS: plot_star(ax, star, STARS)"
PlotStar ==
    /\ fn # "savefig"
    /\ plotted < Len(STARS)
    /\ LET star == STARS[plotted + 1]
           coords == galactic_to_cartesian(star.distance, star.longitude, star.latitude)
       IN  /\ star_data' = star
           /\ perpendicular_distance' = coords.x_plot
           /\ x_pos' = categorize_x_plot(coords.x_plot)
           /\ y_pos' = rank_y_plot(star, STARS)
    /\ fn' = "plot_star"
    /\ plotted' = plotted + 1
    /\ UNCHANGED STARS

\* the loop is over: the figure is saved
Savefig ==
    /\ fn # "savefig"
    /\ plotted = Len(STARS)
    /\ fn' = "savefig"
    /\ UNCHANGED <<STARS, perpendicular_distance, x_pos, star_data, y_pos, plotted>>

Next == CallRankYPlot \/ PlotStar \/ Savefig

Spec == Init /\ [][Next]_vars

InitX ==
    /\ STARS = <<SagittariusA, Sol>>
    /\ fn = "import"
    /\ perpendicular_distance = 0
    /\ x_pos = Frac(0, 1)
    /\ star_data = NoStar
    /\ y_pos = Frac(0, 1)
    /\ plotted = 0

NextX == CallCategorizeXPlot

SpecX == InitX /\ [][NextX]_vars

\* ---------------------------------------------------------------- helpers of the properties
Called == fn \in {"rank_y_plot", "plot_star"}

Categorized == fn = "categorize_x_plot"

IsAnchor(star) == star.name \in AnchorNames

Member(star, cat) == \E k \in 1..Len(cat) : cat[k] = star

\* indices of the non-anchor records of cat on the same side of Sol as star
Group(cat, star) ==
    {k \in 1..Len(cat) : /\ ~IsAnchor(cat[k])
                         /\ (y_plot_of(cat[k]) > 0) = (y_plot_of(star) > 0)}

\* cat[a] comes before cat[b] in descending order of offset (catalog order on ties)
Before(cat, a, b) ==
    \/ y_plot_of(cat[a]) > y_plot_of(cat[b])
    \/ y_plot_of(cat[a]) = y_plot_of(cat[b]) /\ a < b

\* zero-based place of cat[k] in its group
Place(cat, k) == Cardinality({j \in Group(cat, cat[k]) : Before(cat, j, k)})

IndexOfStar(cat, star) == CHOOSE k \in 1..Len(cat) : cat[k] = star

Closer(star) == y_plot_of(star) > 0

XTicks == {Frac(-2, 1), Frac(-1, 1), Frac(-1, 2), Frac(0, 1), Frac(1, 2), Frac(1, 1), Frac(2, 1)}

Neg(f) == Frac(-f.num, f.den)

FAbs(f) == Frac(abs(f.num), abs(f.den))

Thresholds == {1 * LightYear, 12 * LightYear, 70 * LightYear}

NearerBucket(a) == IF a = 1 * LightYear THEN Frac(0, 1)
                   ELSE IF a = 12 * LightYear THEN Frac(1, 2)
                   ELSE Frac(1, 1)

FartherBucket(a) == IF a = 1 * LightYear THEN Frac(1, 2)
                    ELSE IF a = 12 * LightYear THEN Frac(1, 1)
                    ELSE Frac(2, 1)

\* ---------------------------------------------------------------- categorize_x_plot

\* C1: whatever the offset, categorize_x_plot returns one of -2, -1, -0.5, 0, 0.5, 1, 2.
C1_OneOfSevenBuckets ==
    Categorized => \E t \in XTicks : FEq(x_pos, t)

C1_Witness ==
    /\ Categorized
    /\ perpendicular_distance = -86 * LightYear
    /\ FEq(x_pos, Frac(2, 1))

\* C2: the result is 0 exactly when the absolute offset is strictly below 1 ly
\* (1 and -1 are outside the centre bucket, 0.999 and -0.999 are inside).
C2_CentreIffBelowOne ==
    Categorized => (FEq(x_pos, Frac(0, 1)) <=> abs(perpendicular_distance) < 1 * LightYear)

C2_Witness ==
    /\ Categorized
    /\ perpendicular_distance = 1 * LightYear
    /\ ~FEq(x_pos, Frac(0, 1))

\* C3 as stated: an offset exactly at a threshold (1, 12, 70) lands in the nearer
\* bucket (0 at 1, 0.5 at 12, 1 at 70).
C3_NearerBucketAtThreshold ==
    (Categorized /\ abs(perpendicular_distance) \in Thresholds)
        => FEq(FAbs(x_pos), NearerBucket(abs(perpendicular_distance)))

\* C3 amended: an offset exactly at a threshold (1, 12, 70) lands in the farther
\* bucket (0.5 at 1, 1 at 12, 2 at 70), on the side opposite to its sign.
C3_FartherBucketAtThreshold ==
    (Categorized /\ abs(perpendicular_distance) \in Thresholds)
        => /\ FEq(FAbs(x_pos), FartherBucket(abs(perpendicular_distance)))
           /\ (perpendicular_distance > 0) = (x_pos.num * x_pos.den < 0)

C3_Witness ==
    /\ Categorized
    /\ perpendicular_distance = 12 * LightYear
    /\ FEq(x_pos, Frac(-1, 1))

\* C4: the sign is flipped: a positive offset never gives a positive coordinate, a
\* negative offset never a negative one; from 1 ly on the result is non-zero with
\* the opposite sign; and categorize_x_plot(-d) = -categorize_x_plot(d).
C4_SignFlipped ==
    Categorized =>
        LET d == perpendicular_distance
        IN  /\ (d > 0 => FLe(x_pos, Frac(0, 1)))
            /\ (d < 0 => FLe(Frac(0, 1), x_pos))
            /\ (d >= 1 * LightYear => FLt(x_pos, Frac(0, 1)))
            /\ (d <= -1 * LightYear => FLt(Frac(0, 1), x_pos))
            /\ FEq(categorize_x_plot(-d), Neg(x_pos))

C4_Witness ==
    /\ Categorized
    /\ perpendicular_distance = 30 * LightYear
    /\ FEq(x_pos, Frac(-1, 1))

\* ---------------------------------------------------------------- rank_y_plot

\* C5: in a group of N > 1 members of a catalog with unique names, taken in
\* descending order of offset, positions strictly decrease by the constant step
\* 0.47/(N-1), from 0.57 down to 0.1 (closer group) or from -0.1 down to -0.57
\* (farther group).
C5_EvenlySpaced ==
    (Called /\ ~IsAnchor(star_data) /\ Member(star_data, STARS) /\ UniqueNames(STARS)
        /\ Cardinality(Group(STARS, star_data)) > 1)
    => LET k == IndexOfStar(STARS, star_data)
           G == Group(STARS, star_data)
           N == Cardinality(G)
           first == IF Closer(star_data) THEN Frac(57, 100) ELSE Frac(-1, 10)
           last == IF Closer(star_data) THEN Frac(1, 10) ELSE Frac(-57, 100)
       IN  /\ (Place(STARS, k) = 0 => FEq(y_pos, first))
           /\ (Place(STARS, k) = N - 1 => FEq(y_pos, last))
           /\ \A j \in G :
                 Place(STARS, j) = Place(STARS, k) + 1
                    => LET next_pos == rank_y_plot(STARS[j], STARS)
                       IN  /\ FLt(next_pos, y_pos)
                           /\ FEq(Sub(y_pos, next_pos), Frac(47, 100 * (N - 1)))

C5_Witness ==
    /\ fn = "plot_star"
    /\ Member(star_data, STARS)
    /\ ~IsAnchor(star_data)
    /\ Closer(star_data)
    /\ Cardinality(Group(STARS, star_data)) = 3
    /\ Place(STARS, IndexOfStar(STARS, star_data)) = 1
    /\ FEq(y_pos, Frac(335, 1000))

\* C6: a non-anchor star alone in its group gets the midpoint 0.35 (closer group)
\* or -0.35 (farther group); no division by N-1 = 0 is evaluated.
C6_SingletonMidpoint ==
    (Called /\ ~IsAnchor(star_data) /\ Member(star_data, STARS)
        /\ Cardinality(Group(STARS, star_data)) = 1)
    => /\ ~Raised(y_pos)
       /\ FEq(y_pos, IF Closer(star_data) THEN Frac(35, 100) ELSE Frac(-35, 100))

C6_Witness ==
    /\ fn = "plot_star"
    /\ ~IsAnchor(star_data)
    /\ ~Closer(star_data)
    /\ Cardinality(Group(STARS, star_data)) = 1
    /\ Len(STARS) = 3
    /\ FEq(y_pos, Frac(-35, 100))

\* C7: "Sagittarius A*" gets 0.7 and "Sol" gets 0, whatever the catalog (empty,
\* without the anchors, with other records) and whatever the anchor's own
\* distance, longitude and latitude.
C7_AnchorsPinned ==
    Called =>
        /\ (star_data.name = "Sagittarius A*" => FEq(y_pos, Frac(7, 10)))
        /\ (star_data.name = "Sol" => FEq(y_pos, Frac(0, 1)))

C7_Witness ==
    /\ fn = "rank_y_plot"
    /\ star_data.name = "Sagittarius A*"
    /\ star_data.distance = 100
    /\ \A k \in 1..Len(STARS) : ~IsAnchor(STARS[k])
    /\ Len(STARS) = 2
    /\ FEq(y_pos, Frac(7, 10))

\* C8: the position of a non-anchor star depends on its rank and on the size of
\* its group only: a catalog with the same names in the same places, the same sign
\* of every offset and the same order between the offsets gives the same position,
\* whatever the magnitudes are.
Sign(y) == IF y > 0 THEN 1 ELSE IF y < 0 THEN -1 ELSE 0

SameShape(c1, c2) ==
    /\ Len(c1) = Len(c2)
    /\ \A k \in 1..Len(c1) :
          /\ c1[k].name = c2[k].name
          /\ Sign(y_plot_of(c1[k])) = Sign(y_plot_of(c2[k]))
    /\ \A a, b \in 1..Len(c1) :
          (y_plot_of(c1[a]) < y_plot_of(c1[b])) = (y_plot_of(c2[a]) < y_plot_of(c2[b]))

\* cat with other magnitudes: one record moved to other coordinates, every
\* regular record moved, or every distance multiplied
OtherMagnitudes(cat) ==
    {[cat EXCEPT ![k] = Star(cat[k].name, c)] :
        k \in {j \in 1..Len(cat) : ~IsAnchor(cat[j])}, c \in Coordinates}
    \cup {[k \in 1..Len(cat) |-> [cat[k] EXCEPT !.distance = m * cat[k].distance]] : m \in {2, 3}}

C8_RankNotMagnitude ==
    (Called /\ ~IsAnchor(star_data) /\ Member(star_data, STARS))
    => LET k == IndexOfStar(STARS, star_data)
       IN  \A other \in OtherMagnitudes(STARS) :
              SameShape(STARS, other) => FEq(rank_y_plot(other[k], other), y_pos)

C8_Witness ==
    /\ fn = "plot_star"
    /\ Len(STARS) = 3
    /\ \A k \in 1..3 : ~IsAnchor(STARS[k]) /\ Closer(STARS[k])
    /\ star_data = STARS[2]
    /\ y_plot_of(STARS[1]) > y_plot_of(STARS[2])
    /\ y_plot_of(STARS[2]) = y_plot_of(STARS[3])
    /\ \E other \in OtherMagnitudes(STARS) :
          /\ SameShape(STARS, other)
          /\ y_plot_of(other[1]) # y_plot_of(STARS[1])
          /\ other[2] = STARS[2]
    /\ FEq(y_pos, Frac(335, 1000))

\* C9: a non-anchor member of a catalog with unique names never gets the fallback
\* 0: its position is in [0.1, 0.57] when its offset is > 0 and in [-0.57, -0.1]
\* when it is <= 0, so an offset of exactly 0 counts as farther.
C9_MemberNeverFallsBack ==
    (Called /\ ~IsAnchor(star_data) /\ Member(star_data, STARS) /\ UniqueNames(STARS))
    => /\ ~FEq(y_pos, Frac(0, 1))
       /\ IF y_plot_of(star_data) > 0
          THEN FLe(Frac(1, 10), y_pos) /\ FLe(y_pos, Frac(57, 100))
          ELSE FLe(Frac(-57, 100), y_pos) /\ FLe(y_pos, Frac(-1, 10))

C9_Witness ==
    /\ fn = "plot_star"
    /\ ~IsAnchor(star_data)
    /\ y_plot_of(star_data) = 0
    /\ Cardinality(Group(STARS, star_data)) = 2
    /\ FEq(y_pos, Frac(-1, 10))

\* C10: with unique names and pairwise distinct offsets of the non-anchor records,
\* the position of every star is the same for every reordering of the catalog and
\* with the anchor records added to or removed from it.
DistinctOffsets(cat) ==
    \A a, b \in 1..Len(cat) :
        (~IsAnchor(cat[a]) /\ ~IsAnchor(cat[b]) /\ a # b)
            => y_plot_of(cat[a]) # y_plot_of(cat[b])

Permutations(n) == {p \in [1..n -> 1..n] : \A a, b \in 1..n : p[a] = p[b] => a = b}

Reordered(cat, p) == [k \in 1..Len(cat) |-> cat[p[k]]]

WithoutAnchors(cat) == SelectSeq(cat, LAMBDA r : ~IsAnchor(r))

WithAnchors(cat) == <<Sol>> \o WithoutAnchors(cat) \o <<SagittariusA>>

C10_OrderAndAnchorsIrrelevant ==
    (Called /\ Member(star_data, STARS) /\ UniqueNames(STARS) /\ DistinctOffsets(STARS))
    => /\ \A p \in Permutations(Len(STARS)) :
             FEq(rank_y_plot(star_data, Reordered(STARS, p)), y_pos)
       /\ FEq(rank_y_plot(star_data, WithoutAnchors(STARS)), y_pos)
       /\ FEq(rank_y_plot(star_data, WithAnchors(STARS)), y_pos)

C10_Witness ==
    /\ fn = "plot_star"
    /\ Len(STARS) = 3
    /\ DistinctOffsets(STARS)
    /\ STARS[2] = Sol
    /\ star_data = STARS[3]
    /\ Closer(STARS[1])
    /\ y_plot_of(STARS[1]) < y_plot_of(STARS[3])
    /\ FEq(y_pos, Frac(57, 100))
====
